---- MODULE Spec2Model ----
(***************************************************************************)
(* A model of txaws/server/schema.py: Parameter coercion, the Parameter   *)
(* types, the flat <-> nested path conversion and Schema.extract, bundle   *)
(* and extend.                                                             *)
(*                                                                         *)
(* Python values are tagged records: None, str (a sequence of one-byte    *)
(* strings), unicode, int, bool, dict (a function from str keys), list,    *)
(* Arguments and Parameter objects.  A call yields an outcome: Ret(v) or   *)
(* Raise(exception, argument).  Where the code iterates over a dict, whose *)
(* order Python leaves arbitrary, an operator yields the set of outcomes   *)
(* over every visiting order.                                              *)
(***************************************************************************)
EXTENDS Integers, Sequences, FiniteSets, TLC

VARIABLES
    parameter,   \* the Parameter object a coerce / parse call is made on
    parameters,  \* the Parameter list handed to Schema(*parameters)
    schema,      \* the outcome of Schema(*parameters): Ret(its _parameters) or Raise
    call         \* the last call made: its operation, arguments and outcome

vars == <<parameter, parameters, schema, call>>

(***************************************************************************)
(* Python values and call outcomes                                         *)
(***************************************************************************)
None == [t |-> "None"]
Str(s) == [t |-> "str", s |-> s]
Uni(s) == [t |-> "unicode", u |-> s]
Int_(n) == [t |-> "int", n |-> n]
Bool_(b) == [t |-> "bool", b |-> b]
Dict(f) == [t |-> "dict", d |-> f]
PyList(s) == [t |-> "list", l |-> s]
EmptyDict == [k \in {} |-> None]

Ret(v) == [ok |-> TRUE, value |-> v]
Raise(e, a) == [ok |-> FALSE, exc |-> e, arg |-> a]
\* The text an exception or a message template carries.
Msg(text) == [t |-> "message", m |-> text]

\* All orders in which the elements of a finite set can be visited.
RECURSIVE Orders(_)
Orders(S) ==
    IF S = {} THEN { <<>> }
    ELSE UNION { { <<x>> \o o : o \in Orders(S \ {x}) } : x \in S }

(***************************************************************************)
(* str operations                                                          *)
(***************************************************************************)
Digits == {"0", "1", "2", "3", "4", "5", "6", "7", "8", "9"}

DigitVal(c) ==
    CASE c = "0" -> 0 [] c = "1" -> 1 [] c = "2" -> 2 [] c = "3" -> 3
      [] c = "4" -> 4 [] c = "5" -> 5 [] c = "6" -> 6 [] c = "7" -> 7
      [] c = "8" -> 8 [] c = "9" -> 9

DigitChar(d) ==
    CASE d = 0 -> "0" [] d = 1 -> "1" [] d = 2 -> "2" [] d = 3 -> "3"
      [] d = 4 -> "4" [] d = 5 -> "5" [] d = 6 -> "6" [] d = 7 -> "7"
      [] d = 8 -> "8" [] d = 9 -> "9"

IsDecimal(s) == Len(s) > 0 /\ \A i \in 1..Len(s) : s[i] \in Digits

RECURSIVE DecVal(_)
DecVal(s) ==
    IF s = <<>> THEN 0
    ELSE DecVal(SubSeq(s, 1, Len(s) - 1)) * 10 + DigitVal(s[Len(s)])

RECURSIVE DecStr(_)
DecStr(n) == IF n < 10 THEN <<DigitChar(n)>> ELSE DecStr(n \div 10) \o <<DigitChar(n % 10)>>

\* int(value): a str holding an optional sign and decimal digits, or an int.
int(value) ==
    CASE value.t = "int" -> Ret(value)
      [] value.t = "str" ->
           LET s == value.s
               signed == s # <<>> /\ s[1] \in {"-", "+"}
               body == IF signed THEN Tail(s) ELSE s
           IN  IF ~IsDecimal(body) THEN Raise("ValueError", value)
               ELSE IF signed /\ s[1] = "-" THEN Ret(Int_(0 - DecVal(body)))
               ELSE Ret(Int_(DecVal(body)))
      [] OTHER -> Raise("TypeError", value)

\* str(value) of an int or a str.
str(value) ==
    CASE value.t = "str" -> value
      [] value.t = "int" ->
           IF value.n < 0 THEN Str(<<"-">> \o DecStr(0 - value.n)) ELSE Str(DecStr(value.n))
      [] OTHER -> [t |-> "str", repr |-> value]

\* key.split("."): the segments between the dots.
RECURSIVE split(_)
split(s) ==
    IF \A i \in 1..Len(s) : s[i] # "." THEN <<s>>
    ELSE LET i == CHOOSE i \in 1..Len(s) : s[i] = "." /\ \A j \in 1..(i - 1) : s[j] # "."
         IN  <<SubSeq(s, 1, i - 1)>> \o split(SubSeq(s, i + 1, Len(s)))

\* ".".join(parts)
RECURSIVE join(_)
join(parts) ==
    IF parts = <<>> THEN <<>>
    ELSE IF Len(parts) = 1 THEN parts[1]
    ELSE parts[1] \o <<".">> \o join(Tail(parts))

\* path.lstrip(".")
RECURSIVE lstrip(_)
lstrip(s) == IF s # <<>> /\ s[1] = "." THEN lstrip(Tail(s)) ELSE s

\* value.decode("utf-8"): the bytes below 0x80 stand for themselves, the pair
\* C3 A9 is the one two-byte character of the model, any other byte is invalid.
RECURSIVE decode(_)
decode(s) ==
    IF s = <<>> THEN Ret(<<>>)
    ELSE IF s[1] = "xC3" THEN
        IF Len(s) >= 2 /\ s[2] = "xA9"
        THEN LET r == decode(SubSeq(s, 3, Len(s)))
             IN  IF r.ok THEN Ret(<<"e'">> \o r.value) ELSE r
        ELSE Raise("UnicodeDecodeError", Str(s))
    ELSE IF s[1] \in {"xA9", "xFF"} THEN Raise("UnicodeDecodeError", Str(s))
    ELSE LET r == decode(Tail(s))
         IN  IF r.ok THEN Ret(<<s[1]>> \o r.value) ELSE r

\* value.encode("utf-8")
RECURSIVE encode(_)
encode(u) ==
    IF u = <<>> THEN <<>>
    ELSE (IF u[1] = "e'" THEN <<"xC3", "xA9">> ELSE <<u[1]>>) \o encode(Tail(u))

(***************************************************************************)
(* Parameter and its types                                                 *)
(***************************************************************************)
\* Parameter.__init__ and the kind of its subclass.  item is set by List,
\* fields by Structure, mapping and reverse by Enum.
Parameter(kind, name, optional, default, min, max, allow_none, validator) ==
    [t |-> "Parameter", kind |-> kind, name |-> name, optional |-> optional,
     default |-> default, min |-> min, max |-> max, allow_none |-> allow_none,
     validator |-> validator, item |-> None, fields |-> None,
     mapping |-> None, reverse |-> None]

Unicode(name, optional, default, min, max, allow_none, validator) ==
    Parameter("unicode", name, optional, default, min, max, allow_none, validator)

RawStr(name, optional, default, min, max, allow_none, validator) ==
    Parameter("raw string", name, optional, default, min, max, allow_none, validator)

\* The min of an Integer that is given none.
IntegerMin == 0

Integer(name, optional, default, min, max, allow_none, validator) ==
    Parameter("integer", name, optional, default, min, max, allow_none, validator)

Bool(name, optional, default, min, max, allow_none, validator) ==
    Parameter("boolean", name, optional, default, min, max, allow_none, validator)

\* dict((value, key) for key, value in mapping.iteritems()) over the keys
\* still to visit: a value met again takes the later key.
RECURSIVE ReverseLoop(_, _, _)
ReverseLoop(mapping, order, reverse) ==
    IF order = <<>> THEN reverse
    ELSE LET key == Head(order)
         IN  ReverseLoop(mapping, Tail(order), (mapping[key] :> key) @@ reverse)

\* Enum(name, mapping, optional, default): the set of its possible outcomes,
\* one for each order in which the mapping is iterated.
Enum(name, mapping, optional, default) ==
    IF mapping = None THEN { Raise("MissingParameterError", Msg("Must provide mapping")) }
    ELSE { Ret([Parameter("enum", name, optional, default, None, None, FALSE, None)
                  EXCEPT !.mapping = mapping,
                         !.reverse = Dict(ReverseLoop(mapping.d, order, EmptyDict))])
           : order \in Orders(DOMAIN mapping.d) }

\* List(name, item, optional, default)
List(name, item, optional, default) ==
    IF item = None THEN Raise("MissingParameterError", Msg("Must provide item"))
    ELSE Ret([Parameter("List", name, optional, default, None, None, FALSE, None)
                EXCEPT !.item = item])

\* Structure(name, fields, optional, default)
Structure(name, fields, optional, default) ==
    IF fields = None THEN Raise("MissingParameterError", Msg("Must provide fields"))
    ELSE Ret([Parameter("Structure", name, optional, default, None, None, FALSE, None)
                EXCEPT !.fields = fields])

\* The class attributes lower_than_min_template and greater_than_max_template.
lower_than_min_template(p) ==
    CASE p.kind = "unicode" -> "Length must be at least %s."
      [] p.kind = "integer" -> "Value must be at least %s."

greater_than_max_template(p) ==
    CASE p.kind = "unicode" -> "Length exceeds maximum of %s."
      [] p.kind = "integer" -> "Value exceeds maximum of %s."

\* A validator is a callable that returns a bool: here, one that rejects the
\* parsed values of a set.
Validator(rejected) == [t |-> "function", rejected |-> rejected]

CallValidator(validator, parsed) == parsed \notin validator.rejected

\* measure(value)
measure(p, value) ==
    CASE p.kind = "unicode" ->
           (CASE value.t = "str" -> Ret(Int_(Len(value.s)))
              [] value.t = "list" -> Ret(Int_(Len(value.l)))
              [] value.t = "dict" -> Ret(Int_(Cardinality(DOMAIN value.d)))
              [] OTHER -> Raise("TypeError", value))
      [] p.kind = "integer" -> int(value)
      [] OTHER -> Raise("NotImplementedError", None)

\* list[index] = value, with Python's negative indices.
SetItem(result, index, value) ==
    LET n == Len(result)
    IN  IF index >= 0 /\ index < n THEN Ret([result EXCEPT ![index + 1] = value])
        ELSE IF index < 0 /\ index >= 0 - n THEN Ret([result EXCEPT ![n + index + 1] = value])
        ELSE Raise("IndexError", Int_(index))

RECURSIVE parse(_, _)
RECURSIVE ListParseLoop(_, _, _, _)
RECURSIVE StructureParseLoop(_, _, _, _)

\* The loop of List.parse over the keys still to visit: the item is parsed
\* first, then int(k) - 1 is computed, then the slot is assigned.
ListParseLoop(p, value, order, result) ==
    IF order = <<>> THEN { Ret(PyList(result)) }
    ELSE LET k == Head(order)
         IN  UNION { IF ~item.ok THEN { item }
                     ELSE LET index == int(Str(k))
                          IN  IF ~index.ok THEN { index }
                              ELSE LET set == SetItem(result, index.value.n - 1, item.value)
                                   IN  IF ~set.ok THEN { set }
                                       ELSE ListParseLoop(p, value, Tail(order), set.value)
                     : item \in parse(p.item, value.d[k]) }

\* List.parse
ListParse(p, value) ==
    CASE value.t = "dict" ->
           UNION { ListParseLoop(p, value, order,
                                 [i \in 1..Cardinality(DOMAIN value.d) |-> None])
                   : order \in Orders(DOMAIN value.d) }
      [] value.t \in {"str", "list"} -> { Raise("AttributeError", Msg("iteritems")) }
      [] OTHER -> { Raise("TypeError", value) }

\* The loop of Structure.parse over the keys still to visit.
StructureParseLoop(p, value, order, result) ==
    IF order = <<>> THEN { Ret(Dict(result)) }
    ELSE LET k == Head(order)
         IN  IF k \notin DOMAIN p.fields.d THEN { Raise("KeyError", Str(k)) }
             ELSE UNION { IF ~field.ok THEN { field }
                          ELSE StructureParseLoop(p, value, Tail(order),
                                                  (k :> field.value) @@ result)
                          : field \in parse(p.fields.d[k], value.d[k]) }

\* Structure.parse
StructureParse(p, value) ==
    CASE value.t = "dict" ->
           UNION { StructureParseLoop(p, value, order, EmptyDict)
                   : order \in Orders(DOMAIN value.d) }
      [] OTHER -> { Raise("AttributeError", Msg("iteritems")) }

\* parse(value) of each Parameter type: the set of its possible outcomes.
parse(p, value) ==
    CASE p.kind = "unicode" ->
           IF value.t = "str"
           THEN LET r == decode(value.s) IN { IF r.ok THEN Ret(Uni(r.value)) ELSE r }
           ELSE { Raise("AttributeError", Msg("decode")) }
      [] p.kind = "raw string" -> { Ret(str(value)) }
      [] p.kind = "integer" -> { int(value) }
      [] p.kind = "boolean" ->
           IF value = Str(<<"t", "r", "u", "e">>) THEN { Ret(Bool_(TRUE)) }
           ELSE IF value = Str(<<"f", "a", "l", "s", "e">>) THEN { Ret(Bool_(FALSE)) }
           ELSE { Raise("ValueError", None) }
      [] p.kind = "enum" ->
           IF value.t \in {"dict", "list"} THEN { Raise("TypeError", Msg("unhashable")) }
           ELSE IF value.t = "str" /\ value.s \in DOMAIN p.mapping.d
           THEN { Ret(p.mapping.d[value.s]) }
           ELSE { Raise("ValueError", None) }
      [] p.kind = "List" -> ListParse(p, value)
      [] p.kind = "Structure" -> StructureParse(p, value)
      [] OTHER -> { Raise("NotImplementedError", None) }

\* format(value) of each Parameter type.
format(p, value) ==
    CASE p.kind = "unicode" ->
           IF value.t = "unicode" THEN Ret(Str(encode(value.u)))
           ELSE IF value.t = "str" THEN Ret(value)
           ELSE Raise("AttributeError", Msg("encode"))
      [] p.kind = "raw string" -> Ret(value)
      [] p.kind = "integer" -> Ret(str(value))
      [] p.kind = "boolean" ->
           IF value.t = "bool" /\ ~value.b THEN Ret(Str(<<"f", "a", "l", "s", "e">>))
           ELSE Ret(Str(<<"t", "r", "u", "e">>))
      [] p.kind = "enum" ->
           IF value \in DOMAIN p.reverse.d THEN Ret(Str(p.reverse.d[value]))
           ELSE Raise("KeyError", value)
      [] OTHER -> Raise("NotImplementedError", None)

\* _check_range with the bounds themselves refused (< and > written as <= and >=).
_check_range_Exclusive(p, value) ==
    IF p.min = None /\ p.max = None THEN Ret(None)
    ELSE LET m == measure(p, value)
         IN  IF ~m.ok THEN m
             ELSE IF p.min # None /\ m.value.n <= p.min.n
                  THEN Raise("InvalidParameterValueError",
                             [t |-> "message", template |-> lower_than_min_template(p), value |-> value,
                              name |-> p.name, bound |-> p.min])
             ELSE IF p.max # None /\ m.value.n >= p.max.n
                  THEN Raise("InvalidParameterValueError",
                             [t |-> "message", template |-> greater_than_max_template(p), value |-> value,
                              name |-> p.name, bound |-> p.max])
             ELSE Ret(None)

\* Parameter._check_range
_check_range(p, value) ==
    IF p.min = None /\ p.max = None THEN Ret(None)
    ELSE LET m == measure(p, value)
         IN  IF ~m.ok THEN m
             ELSE IF p.min # None /\ m.value.n < p.min.n
                  THEN Raise("InvalidParameterValueError",
                             [t |-> "message", template |-> lower_than_min_template(p), value |-> value,
                              name |-> p.name, bound |-> p.min])
             ELSE IF p.max # None /\ m.value.n > p.max.n
                  THEN Raise("InvalidParameterValueError",
                             [t |-> "message", template |-> greater_than_max_template(p), value |-> value,
                              name |-> p.name, bound |-> p.max])
             ELSE Ret(None)

\* The exceptions "except ValueError" catches.
IsValueError(outcome) == ~outcome.ok /\ outcome.exc \in {"ValueError", "UnicodeDecodeError"}

\* The except clause of coerce: the message names the value when it decodes.
CoerceExcept(p, value) ==
    IF value.t # "str" THEN Raise("AttributeError", Msg("decode"))
    ELSE IF p.kind \in {"List", "Structure"} THEN Raise("AttributeError", Msg("kind"))
    ELSE IF decode(value.s).ok
         THEN Raise("InvalidParameterValueError",
                    [t |-> "message", template |-> "Invalid %s value %s", kind |-> p.kind,
                     value |-> Uni(decode(value.s).value)])
         ELSE Raise("InvalidParameterValueError",
                    [t |-> "message", template |-> "Invalid %s value", kind |-> p.kind])

\* The try block of coerce.
CoerceTry(p, value) ==
    LET range == _check_range(p, value)
    IN  IF ~range.ok THEN { range }
        ELSE { IF parsed.ok /\ p.validator # None /\ ~CallValidator(p.validator, parsed.value)
               THEN Raise("ValueError", value)
               ELSE parsed
               : parsed \in parse(p, value) }

\* coerce with the empty string taken for an absent value.
coerce_EmptyAsAbsent(p, value) ==
    IF (value = None \/ value = Str(<<>>)) /\ p.optional THEN { Ret(p.default) }
    ELSE LET v == IF value = None THEN Str(<<>>) ELSE value
         IN  IF v = Str(<<>>)
             THEN IF ~p.allow_none THEN { Raise("MissingParameterError", p.name) }
                  ELSE { Ret(p.default) }
             ELSE { IF IsValueError(o) THEN CoerceExcept(p, v) ELSE o : o \in CoerceTry(p, v) }

\* Parameter.coerce: the set of its possible outcomes.
coerce(p, value) ==
    IF value = None /\ p.optional THEN { Ret(p.default) }
    ELSE LET v == IF value = None THEN Str(<<>>) ELSE value
         IN  IF v = Str(<<>>)
             THEN IF ~p.allow_none THEN { Raise("MissingParameterError", p.name) }
                  ELSE { Ret(p.default) }
             ELSE { IF IsValueError(o) THEN CoerceExcept(p, v) ELSE o : o \in CoerceTry(p, v) }

(***************************************************************************)
(* Arguments, the flat <-> nested conversion and Schema                    *)
(***************************************************************************)
\* Arguments(tree) and Arguments._wrap: every dict becomes an Arguments
\* object, a list or a leaf is kept as it is.  The keys of the trees that
\* extract builds are str, so the branch for int keys is never taken.
RECURSIVE _wrap(_)
_wrap(value) ==
    IF value.t = "dict"
    THEN [t |-> "Arguments", d |-> [k \in DOMAIN value.d |-> _wrap(value.d[k])]]
    ELSE value

Arguments(tree) == _wrap(Dict(tree))

\* One key of _convert_flat_to_nest: last = last.setdefault(item, newd) along
\* the segments, from the node last.  A node that is no dict has no
\* setdefault; a last segment that is already set keeps its old value.
RECURSIVE SetDefaultPath(_, _, _)
SetDefaultPath(last, segments, v) ==
    IF last.t # "dict" THEN Raise("AttributeError", Msg("setdefault"))
    ELSE LET item == Head(segments)
         IN  IF Len(segments) = 1
             THEN IF item \in DOMAIN last.d THEN Ret(last)
                  ELSE Ret(Dict((item :> v) @@ last.d))
             ELSE LET child == IF item \in DOMAIN last.d THEN last.d[item] ELSE Dict(EmptyDict)
                      below == SetDefaultPath(child, Tail(segments), v)
                  IN  IF ~below.ok THEN below
                      ELSE Ret(Dict((item :> below.value) @@ last.d))

\* The loop of _convert_flat_to_nest over the keys of params in the order
\* given, from the result built so far.  A key that is None has no split.
RECURSIVE ConvertFlatLoop(_, _, _)
ConvertFlatLoop(params, order, result) ==
    IF order = <<>> THEN Ret(result)
    ELSE LET k == Head(order)
         IN  IF k.t # "str" THEN Raise("AttributeError", Msg("split"))
             ELSE LET next == SetDefaultPath(result, split(k.s), params[k])
                  IN  IF ~next.ok THEN next
                      ELSE ConvertFlatLoop(params, Tail(order), next.value)

\* _convert_flat_to_nest(params): the outcomes over every order of the keys.
\* The keys of params are the tagged values Str(key) (or None, a Parameter
\* with no name).
_convert_flat_to_nest(params) ==
    { ConvertFlatLoop(params, order, Dict(EmptyDict)) : order \in Orders(DOMAIN params) }

\* The loop of extract(arguments, schema) over the top-level keys of the nest.
RECURSIVE ExtractLoop(_, _, _, _, _)
ExtractLoop(nest, fields, order, output, rest) ==
    IF order = <<>> THEN { Ret([t |-> "tuple", output |-> Dict(output), rest |-> Dict(rest)]) }
    ELSE LET k == Head(order)
         IN  IF k \in DOMAIN fields
             THEN UNION { IF ~parsed.ok THEN { parsed }
                          ELSE ExtractLoop(nest, fields, Tail(order),
                                           (k :> parsed.value) @@ output, rest)
                          : parsed \in parse(fields[k], nest[k]) }
             ELSE ExtractLoop(nest, fields, Tail(order), output, (k :> nest[k]) @@ rest)

\* extract(arguments, schema): schema is the dict Schema._parameters.
extract(arguments, fields) ==
    UNION { IF ~nest.ok THEN { nest }
            ELSE UNION { ExtractLoop(nest.value.d, fields, order, EmptyDict, EmptyDict)
                         : order \in Orders(DOMAIN nest.value.d) }
            : nest \in _convert_flat_to_nest([k \in { Str(a) : a \in DOMAIN arguments }
                                                |-> arguments[k.s]]) }

\* Schema.extract(params): the statements before its first return; the rest
\* of the method is never reached.
Schema_extract(_parameters, params) ==
    { IF ~r.ok THEN r
      ELSE Ret([t |-> "tuple", arguments |-> Arguments(r.value.output.d), rest |-> r.value.rest])
      : r \in extract(params, _parameters) }

\* _secret_convert_old_schema(stuff, depth)
RECURSIVE _secret_convert_old_schema(_, _)
_secret_convert_old_schema(stuff, depth) ==
    IF stuff.t # "dict" THEN Ret(stuff)
    ELSE IF depth % 2 = 0
    THEN LET sub == [k \in DOMAIN stuff.d |-> _secret_convert_old_schema(stuff.d[k], depth + 1)]
         IN  IF \E k \in DOMAIN sub : ~sub[k].ok
             THEN sub[CHOOSE k \in DOMAIN sub : ~sub[k].ok]
             ELSE Structure(None, Dict([k \in DOMAIN sub |-> sub[k].value]), FALSE, None)
    ELSE IF Cardinality(DOMAIN stuff.d) # 1
         THEN Raise("AssertionError", Msg("List had multiple names for index: %s"))
         ELSE LET item == _secret_convert_old_schema(
                              stuff.d[CHOOSE k \in DOMAIN stuff.d : TRUE], depth + 1)
              IN  IF ~item.ok THEN item ELSE List(None, item.value, FALSE, None)

\* The dict crap of _convert_old_schema: parameter.name -> parameter, a later
\* Parameter replacing an earlier one of the same name.
Crap(params) ==
    [name \in { params[i].name : i \in 1..Len(params) } |->
        params[CHOOSE i \in 1..Len(params) :
                 /\ params[i].name = name
                 /\ \A j \in (i + 1)..Len(params) : params[j].name # name]]

\* _convert_old_schema(parameters): the outcomes over every order of crap.
_convert_old_schema(params) ==
    { IF ~nest.ok THEN nest
      ELSE LET top == _secret_convert_old_schema(nest.value, 0)
           IN  IF ~top.ok THEN top ELSE Ret(top.value.fields.d)
      : nest \in _convert_flat_to_nest(Crap(params)) }

\* Schema.__init__(*parameters): the outcomes, each Ret(self._parameters).
Schema(params) == _convert_old_schema(params)

\* Schema._get_template(key)
_get_template(key) ==
    LET parts == split(key)
    IN  join([i \in 1..Len(parts) |-> IF i % 2 = 0 THEN <<"#">> ELSE parts[i]])

\* Schema._flatten(params, tree, path): the (key, value) pairs it sets.
RECURSIVE _flatten(_, _)
_flatten(tree, path) ==
    IF tree.t \in {"Arguments", "dict"}
    THEN UNION { _flatten(tree.d[name], path \o <<".">> \o name) : name \in DOMAIN tree.d }
    ELSE IF tree.t = "list"
    THEN UNION { _flatten(tree.l[index], path \o <<".">> \o DecStr(index))
                 : index \in 1..Len(tree.l) }
    ELSE IF tree # None THEN { <<lstrip(path), tree>> }
    ELSE {}

\* The dicts params can be after the pairs are set in it, in any order.
Update(params, pairs) ==
    LET keys == { pair[1] : pair \in pairs }
    IN  { [k \in DOMAIN params \cup keys |-> IF k \in keys THEN f[k] ELSE params[k]]
          : f \in { g \in [keys -> { pair[2] : pair \in pairs }] :
                      \A k \in keys : <<k, g[k]>> \in pairs } }

\* The first loop of bundle, over the arguments left to flatten.
RECURSIVE BundleFlatten(_, _)
BundleFlatten(params, trees) ==
    IF trees = <<>> THEN { params }
    ELSE UNION { BundleFlatten(next, Tail(trees))
                 : next \in Update(params, _flatten(Head(trees), <<>>)) }

\* The second loop of bundle, over the keys of params left to format.
RECURSIVE BundleFormat(_, _, _)
BundleFormat(_parameters, params, order) ==
    IF order = <<>> THEN Ret(Dict(params))
    ELSE LET name == Head(order)
             template == _get_template(name)
         IN  IF template \notin DOMAIN _parameters
             THEN Raise("RuntimeError", [t |-> "message",
                                         template |-> "Parameter '%s' not in schema",
                                         name |-> Str(name)])
             ELSE IF params[name] = None
             THEN BundleFormat(_parameters, (name :> Str(<<>>)) @@ params, Tail(order))
             ELSE LET formatted == format(_parameters[template], params[name])
                  IN  IF ~formatted.ok THEN formatted
                      ELSE BundleFormat(_parameters, (name :> formatted.value) @@ params,
                                        Tail(order))

\* Schema.bundle(*arguments, **extra): the outcomes over every order.
Schema_bundle(_parameters, arguments, extra) ==
    UNION { { BundleFormat(_parameters, params, order) : order \in Orders(DOMAIN params) }
            : params \in BundleFlatten(EmptyDict, arguments \o <<Dict(extra)>>) }

\* Schema.extend(*schema_items): the outcomes, each Ret(the _parameters of
\* the new Schema).  values() lists the Parameters of self in any order.
Schema_extend(_parameters, schema_items) ==
    IF \E i \in 1..Len(schema_items) : schema_items[i].t # "Parameter"
    THEN { Raise("TypeError", Msg("Illegal argument %s")) }
    ELSE UNION { Schema([i \in 1..Len(values) |-> _parameters[values[i]]] \o schema_items)
                 : values \in Orders(DOMAIN _parameters) }

(***************************************************************************)
(* Calls on one Parameter: coerce and parse                                *)
(***************************************************************************)
\* The bounds of the inputs.
MaxValue == 4
MaxLen == 4
MaxIndex == 3
MaxItems == 2
MaxTokens == 2

S_Count == <<"C", "o", "u", "n", "t">>

\* Raw request values: decimal integers, texts of each length, a two-byte
\* character, a byte that is not UTF-8, a signed and a zero-padded integer.
RawIntegers == { str(Int_(n)).s : n \in (0 - 1)..MaxValue } \cup { <<"+", "1">>, <<"0", "1">> }
RawTexts == { [i \in 1..n |-> "a"] : n \in 1..MaxLen } \cup { <<"xC3", "xA9">>, <<"xFF">> }
RawValues == { Str(s) : s \in {<<>>} \cup RawIntegers \cup RawTexts }

\* The keys and values of the mappings List.parse is given.
IndexKeys == { str(Int_(n)).s : n \in (0 - 1)..MaxIndex } \cup { <<"x">>, <<"0", "1">> }
ItemValues == { Str(<<"a">>), Str(<<"5">>) }
Mappings ==
    UNION { { Dict(f) : f \in [keys -> ItemValues] }
            : keys \in { K \in SUBSET IndexKeys : Cardinality(K) <= MaxItems } }

Validators == { None, Validator({ Int_(3), Uni(<<"a", "a", "a">>) }) }

RangedParameters ==
    { Parameter(kind, Str(S_Count), optional, default, min, max, allow_none, validator) :
        kind \in {"integer", "unicode"}, optional \in BOOLEAN, default \in {None, Int_(7)},
        min \in {None, Int_(IntegerMin), Int_(2)}, max \in {None, Int_(1), Int_(3)},
        allow_none \in BOOLEAN, validator \in Validators }

PlainParameters ==
    { Parameter(kind, Str(S_Count), optional, Int_(7), None, None, allow_none, None) :
        kind \in {"raw string", "boolean"}, optional \in BOOLEAN, allow_none \in BOOLEAN }

ListParameters ==
    { List(None, item, FALSE, None).value :
        item \in { RawStr(None, FALSE, None, None, None, FALSE, None),
                   Integer(None, FALSE, None, Int_(IntegerMin), None, FALSE, None) } }

\* The forward mappings an Enum is given: wire tokens to typed values.
S_on == <<"o", "n">>
S_off == <<"o", "f", "f">>
S_yes == <<"y", "e", "s">>
EnumTokens == { S_on, S_off, S_yes }
EnumValues == { Bool_(TRUE), Bool_(FALSE) }
EnumMappings ==
    UNION { { Dict(f) : f \in [tokens -> EnumValues] }
            : tokens \in { T \in SUBSET EnumTokens : Cardinality(T) <= MaxTokens } }

\* The Enum objects whose construction returned.
EnumParameters ==
    { o.value : o \in { e \in UNION { Enum(Str(S_Count), mapping, optional, Bool_(TRUE))
                                       : mapping \in {None} \cup EnumMappings,
                                         optional \in BOOLEAN }
                         : e.ok } }

NoCall == [op |-> "none"]

InitParameter ==
    /\ parameter \in RangedParameters \cup PlainParameters \cup ListParameters
                        \cup EnumParameters
    /\ parameters = <<>>
    /\ schema = None
    /\ call = NoCall

\* parameter.coerce(value)
Coerce(value) ==
    /\ call = NoCall
    /\ \E outcome \in coerce(parameter, value) :
         call' = [op |-> "coerce", value |-> value, outcome |-> outcome]
    /\ UNCHANGED <<parameter, parameters, schema>>

\* parameter.parse(value)
Parse(value) ==
    /\ call = NoCall
    /\ \E outcome \in parse(parameter, value) :
         call' = [op |-> "parse", value |-> value, outcome |-> outcome]
    /\ UNCHANGED <<parameter, parameters, schema>>

\* parameter.format(parameter.parse(value)), once parse has returned.
FormatParsed ==
    /\ call.op = "parse"
    /\ call.outcome.ok
    /\ call' = [op |-> "format", value |-> call.outcome.value, raw |-> call.value,
                outcome |-> format(parameter, call.outcome.value)]
    /\ UNCHANGED <<parameter, parameters, schema>>

NextParameter ==
    \/ \E value \in {None} \cup RawValues : Coerce(value)
    \/ \E value \in RawValues \cup (IF parameter.kind = "List" THEN Mappings ELSE {})
                              \cup (IF parameter.kind = "enum"
                                    THEN { Str(token) : token \in EnumTokens } ELSE {}) :
         Parse(value)
    \/ FormatParsed

SpecParameter == InitParameter /\ [][NextParameter]_vars

(***************************************************************************)
(* Calls on one Schema: extract, bundle and extend                         *)
(***************************************************************************)
\* The bounds of the inputs.
MaxParameters == 2
MaxKeys == 2

S_foo == <<"f", "o", "o">>
S_baz == <<"b", "a", "z">>
S_shimmy == <<"s", "h", "i", "m", "m", "y">>
S_bogus == <<"b", "o", "g", "u", "s">>
S_Bogus == <<"B", "o", "g", "u", "s">>
S_Name == <<"N", "a", "m", "e">>

\* The names Parameters are declared with: a plain name, a name that is a
\* prefix of the others, a list, and fields under two list item names.
SchemaNames ==
    { S_Count, S_foo, join(<<S_foo, <<"#">>>>) }
        \cup { join(<<S_foo, n, field>>) : n \in { <<"#">>, <<"b", "a", "r">> },
                                            field \in { S_baz, S_shimmy } }

SchemaParameters ==
    { Integer(Str(name), optional, IF optional THEN Int_(7) ELSE None,
              Int_(IntegerMin), None, FALSE, None)
      : name \in SchemaNames, optional \in BOOLEAN }

ParameterLists == UNION { [1..n -> SchemaParameters] : n \in 0..MaxParameters }

\* The flat requests: up to MaxKeys of these keys, each with a raw value.
FlatKeys ==
    { S_Bogus, S_Count, S_foo, join(<<S_foo, <<"1">>>>), join(<<S_foo, <<"2">>>>),
      join(<<S_foo, <<"1">>, S_baz>>), join(<<S_foo, <<"1">>, S_shimmy>>),
      join(<<S_foo, <<"1">>, S_bogus>>) }

FlatValues == { Str(<<"5">>), Str(<<"6">>), Str(<<"x">>) }

Requests ==
    UNION { [keys -> FlatValues]
            : keys \in { K \in SUBSET FlatKeys : Cardinality(K) <= MaxKeys } }

\* The keyword arguments bundle is called with.
BundleExtras ==
    { EmptyDict,
      S_Count :> Int_(5),
      S_Count :> None,
      S_Bogus :> Int_(5),
      S_foo :> Int_(5),
      S_foo :> PyList(<<Int_(5), Int_(6)>>),
      S_foo :> PyList(<<Dict(S_baz :> Int_(5))>>),
      (S_Count :> Int_(5)) @@ (S_foo :> PyList(<<Dict((S_baz :> Int_(5)) @@ (S_shimmy :> Int_(6)))>>)) }

\* The arguments extend is called with.
ExtendItems ==
    { <<>>,
      <<Integer(Str(S_Name), FALSE, None, Int_(IntegerMin), None, FALSE, None)>>,
      <<Integer(Str(S_Name), TRUE, Int_(7), Int_(IntegerMin), None, FALSE, None),
        Integer(Str(S_Bogus), FALSE, None, Int_(IntegerMin), None, FALSE, None)>>,
      <<Str(S_Name)>>,
      <<Integer(Str(S_Name), FALSE, None, Int_(IntegerMin), None, FALSE, None), Int_(5)>> }

Init ==
    /\ parameter = None
    /\ parameters \in ParameterLists
    /\ schema \in Schema(parameters)
    /\ call = NoCall

\* schema.extract(params) on a request.
Extract(params) ==
    /\ schema.ok
    /\ call = NoCall
    /\ \E outcome \in Schema_extract(schema.value, params) :
         call' = [op |-> "extract", params |-> Dict(params), request |-> Dict(params),
                  origin |-> None, outcome |-> outcome]
    /\ UNCHANGED <<parameter, parameters, schema>>

\* schema.bundle(**extra)
Bundle(extra) ==
    /\ schema.ok
    /\ call = NoCall
    /\ \E outcome \in Schema_bundle(schema.value, <<>>, extra) :
         call' = [op |-> "bundle", arguments |-> <<>>, extra |-> Dict(extra),
                  request |-> None, outcome |-> outcome]
    /\ UNCHANGED <<parameter, parameters, schema>>

\* schema.bundle(arguments), arguments being what extract returned.
BundleExtracted ==
    /\ call.op = "extract"
    /\ call.origin = None
    /\ call.outcome.ok
    /\ \E outcome \in Schema_bundle(schema.value, <<call.outcome.value.arguments>>, EmptyDict) :
         call' = [op |-> "bundle", arguments |-> <<call.outcome.value.arguments>>,
                  extra |-> Dict(EmptyDict), request |-> call.request, outcome |-> outcome]
    /\ UNCHANGED <<parameter, parameters, schema>>

\* schema.extract(params), params being what bundle returned for the
\* arguments of an earlier extract.
ExtractBundled ==
    /\ call.op = "bundle"
    /\ call.arguments # <<>>
    /\ call.outcome.ok
    /\ \E outcome \in Schema_extract(schema.value, call.outcome.value.d) :
         call' = [op |-> "extract", params |-> call.outcome.value, request |-> call.request,
                  origin |-> call.arguments[1], outcome |-> outcome]
    /\ UNCHANGED <<parameter, parameters, schema>>

\* schema.extend(*schema_items)
Extend(schema_items) ==
    /\ schema.ok
    /\ call = NoCall
    /\ \E outcome \in Schema_extend(schema.value, schema_items) :
         call' = [op |-> "extend", schema_items |-> schema_items, outcome |-> outcome]
    /\ UNCHANGED <<parameter, parameters, schema>>

Next ==
    \/ \E params \in Requests : Extract(params)
    \/ \E extra \in BundleExtras : Bundle(extra)
    \/ BundleExtracted
    \/ ExtractBundled
    \/ \E schema_items \in ExtendItems : Extend(schema_items)

Spec == Init /\ [][Next]_vars

(***************************************************************************)
(* Properties of the calls on one Parameter                                *)
(***************************************************************************)
\* C5: coerce on input without content: an absent value gives the default
\* when the Parameter is optional and is otherwise treated as the empty
\* string; the empty string raises MissingParameter(name) unless allow_none
\* is set, and then gives the default.
C5_CoerceNoContent ==
    (call.op = "coerce" /\ call.value \in { None, Str(<<>>) }) =>
        LET absent == call.value = None
            optional == parameter.optional
            allow_none == parameter.allow_none
            default == Ret(parameter.default)
            missing == Raise("MissingParameterError", parameter.name)
        IN  /\ (absent /\ optional) => call.outcome = default
            /\ (absent /\ ~optional /\ allow_none) => call.outcome = default
            /\ (absent /\ ~optional /\ ~allow_none) => call.outcome = missing
            /\ (~absent /\ allow_none) => call.outcome = default
            /\ (~absent /\ ~allow_none) => call.outcome = missing

\* An optional Parameter without allow_none was given the empty string.
C5_Witness ==
    /\ call.op = "coerce"
    /\ call.value = Str(<<>>)
    /\ parameter.optional
    /\ ~parameter.allow_none
    /\ call.outcome = Raise("MissingParameterError", parameter.name)

\* C6: coerce of a ranged Parameter (Integer, Unicode) on a non-empty raw
\* value returns only a parsed value whose measure is within the configured
\* bounds and which the validator accepts; every failure is
\* InvalidParameterValue, with the lower-bound message when the measure is
\* below min and the upper-bound message when it is above max (min is tested
\* first).  Integer with min 0 and no max refuses "-1" and returns 0 on "0".
C6_RangedCoerce ==
    (/\ call.op = "coerce"
     /\ parameter.kind \in {"integer", "unicode"}
     /\ call.value.t = "str"
     /\ call.value.s # <<>>) =>
        LET p == parameter
            o == call.outcome
            m == measure(p, call.value)
            ranged == p.min # None \/ p.max # None
            below == p.min # None /\ m.ok /\ m.value.n < p.min.n
            above == p.max # None /\ m.ok /\ m.value.n > p.max.n
            plain == p.kind = "integer" /\ p.min = Int_(IntegerMin) /\ p.max = None
                        /\ p.validator = None
        IN  /\ o.ok => /\ ranged => m.ok
                       /\ ~below /\ ~above
                       /\ p.validator # None => CallValidator(p.validator, o.value)
                       /\ o \in parse(p, call.value)
            /\ ~o.ok => o.exc = "InvalidParameterValueError"
            /\ below => ~o.ok /\ o.arg.template = lower_than_min_template(p)
            /\ (above /\ ~below) => ~o.ok /\ o.arg.template = greater_than_max_template(p)
            /\ (plain /\ call.value = Str(<<"-", "1">>)) => ~o.ok
            /\ (plain /\ call.value = Str(<<"0">>)) => o = Ret(Int_(0))

\* An Integer with min 0 and no max returned 0 on "0".
C6_Witness ==
    /\ call.op = "coerce"
    /\ parameter.kind = "integer"
    /\ parameter.min = Int_(IntegerMin)
    /\ parameter.max = None
    /\ call.value = Str(<<"0">>)
    /\ call.outcome = Ret(Int_(0))

\* C10: List.parse returns a sequence only when the indices of the mapping
\* are exactly 1..N, and then the sequence has length N and holds at i - 1
\* the item's parse of the value at index i; for every other mapping
\* (a non-numeric index, a gap, an index of 0 or below) it fails.
C10_ListParse ==
    (call.op = "parse" /\ parameter.kind = "List" /\ call.value.t = "dict") =>
        LET d == call.value.d
            n == Cardinality(DOMAIN d)
            exact == /\ \A k \in DOMAIN d : int(Str(k)).ok
                     /\ { int(Str(k)).value.n : k \in DOMAIN d } = 1..n
        IN  /\ call.outcome.ok =>
                 /\ exact
                 /\ Len(call.outcome.value.l) = n
                 /\ \A k \in DOMAIN d :
                      Ret(call.outcome.value.l[int(Str(k)).value.n]) \in parse(parameter.item, d[k])
            /\ ~exact => ~call.outcome.ok

\* A forward mapping in which no two wire tokens map to one typed value.
Injective(mapping) ==
    \A k1, k2 \in DOMAIN mapping : mapping[k1] = mapping[k2] => k1 = k2

\* C11: an Enum that was constructed has a forward mapping in which no two
\* wire tokens map to the same typed value (construction rejects every
\* other mapping); format(parse(t)) = t for every token t of its mapping,
\* and parse of a token absent from the mapping fails.
C11_EnumRoundTrip ==
    parameter.kind = "enum" =>
        /\ Injective(parameter.mapping.d)
        /\ (call.op = "format" /\ call.raw.s \in DOMAIN parameter.mapping.d) =>
               call.outcome = Ret(call.raw)
        /\ (call.op = "parse" /\ call.value.s \notin DOMAIN parameter.mapping.d) =>
               ~call.outcome.ok

(***************************************************************************)
(* Properties of the calls on one Schema                                   *)
(***************************************************************************)
\* The Parameters the Schema was declared with, by name.
Declared == Crap(parameters)

\* The canonical templates the Schema declares.
DeclaredTemplates == { _get_template(name.s) : name \in DOMAIN Declared }

\* The declared Parameter of a template.
DeclaredParameter(template) ==
    Declared[CHOOSE name \in DOMAIN Declared : _get_template(name.s) = template]

\* A request key is declared when its canonical template is, or when it is
\* the single-valued form Name.1 of a declared Name.
KeyDeclared(key) ==
    LET template == _get_template(key)
        n == Len(template)
    IN  \/ template \in DeclaredTemplates
        \/ /\ n > 2
           /\ SubSeq(template, n - 1, n) = <<".", "#">>
           /\ SubSeq(template, 1, n - 2) \in DeclaredTemplates

\* The request of the last call supplies a value for the Parameter.
Supplied(p) ==
    \E key \in DOMAIN call.request.d :
        _get_template(key) \in { _get_template(p.name.s),
                                 _get_template(p.name.s) \o <<".", "#">> }

\* The last call is an extract of a request (not of what bundle returned).
ExtractedRequest == call.op = "extract" /\ call.origin = None

\* C1: every declared Parameter the request does not supply is resolved as
\* coerce(no value): extract raises MissingParameter naming it when it is
\* required, and the tree returned maps its name to its default when it is
\* optional.
C1_AbsentParameterCoerced ==
    ExtractedRequest =>
        LET absent == { Declared[name] : name \in { n \in DOMAIN Declared : ~Supplied(Declared[n]) } }
            missing == UNION { { r \in coerce(p, None) : ~r.ok } : p \in absent }
        IN  /\ missing # {} =>
                 /\ ~call.outcome.ok
                 /\ call.outcome.exc = "MissingParameterError" => call.outcome \in missing
            /\ call.outcome.ok =>
                 \A p \in absent :
                     Len(split(p.name.s)) = 1 =>
                         /\ p.name.s \in DOMAIN call.outcome.value.arguments.d
                         /\ Ret(call.outcome.value.arguments.d[p.name.s]) \in coerce(p, None)

\* C2: a request key whose template the Schema does not declare never makes
\* extract raise; it is returned in the leftover map under its flat key with
\* its raw value and is not in the typed tree.
C2_UnknownKeysLeftOver ==
    ExtractedRequest =>
        LET request == call.request.d
            unknown == { key \in DOMAIN request : ~KeyDeclared(key) }
        IN  /\ unknown = DOMAIN request =>
                 (call.outcome.ok \/ call.outcome.exc = "MissingParameterError")
            /\ call.outcome.ok =>
                 \A key \in unknown :
                     /\ key \in DOMAIN call.outcome.value.rest.d
                     /\ call.outcome.value.rest.d[key] = request[key]
                     /\ \A pair \in _flatten(call.outcome.value.arguments, <<>>) : pair[1] # key

\* A well-formed request: every key has a declared template and every value
\* is a decimal integer.
WellFormed(request) ==
    \A key \in DOMAIN request.d :
        /\ _get_template(key) \in DeclaredTemplates
        /\ IsDecimal(request.d[key].s)

\* C3: for the arguments A that extract returned on a well-formed request,
\* bundle(A) succeeds and extract of its result gives a tree equal to A but
\* for the leaves that are None.
C3_RoundTrip ==
    /\ (call.op = "bundle" /\ call.arguments # <<>> /\ WellFormed(call.request)) =>
           call.outcome.ok
    /\ (call.op = "extract" /\ call.origin # None /\ WellFormed(call.request)) =>
           /\ call.outcome.ok
           /\ _flatten(call.outcome.value.arguments, <<>>) = _flatten(call.origin, <<>>)

\* The Parameter a declared path ends in: a Structure field at each even
\* depth, the item of a List at each odd depth.
RECURSIVE Resolve(_, _, _)
Resolve(node, segments, depth) ==
    IF segments = <<>> THEN node
    ELSE IF depth % 2 = 0
    THEN IF node.kind = "Structure" /\ Head(segments) \in DOMAIN node.fields.d
         THEN Resolve(node.fields.d[Head(segments)], Tail(segments), depth + 1)
         ELSE None
    ELSE IF node.kind = "List" THEN Resolve(node.item, Tail(segments), depth + 1)
         ELSE None

\* Two declared names share a path up to an odd depth and differ there.
AmbiguousListItem ==
    \E a, b \in DOMAIN Declared :
        \E i \in 1..Len(split(a.s)) :
            /\ i % 2 = 0
            /\ i <= Len(split(b.s))
            /\ SubSeq(split(a.s), 1, i - 1) = SubSeq(split(b.s), 1, i - 1)
            /\ split(a.s)[i] # split(b.s)[i]

\* C4: Schema construction reads every declared path alternately as a
\* Structure field (even depth) and a List item (odd depth, its key
\* dropped), ending in the declared Parameter; it fails when an odd depth
\* holds more than one key.  With Integers foo.bar.baz and foo.bar.shimmy,
\* {foo.1.baz: 5, foo.1.shimmy: 6} extracts to foo[0] = {baz: 5, shimmy: 6}.
C4_LegacyConversion ==
    /\ schema.ok =>
           \A name \in DOMAIN Declared :
               Resolve(Structure(None, Dict(schema.value), FALSE, None).value,
                       split(name.s), 0) = Declared[name]
    /\ AmbiguousListItem => ~schema.ok
    /\ (/\ ExtractedRequest
        /\ { name.s : name \in DOMAIN Declared }
             = { join(<<S_foo, <<"b", "a", "r">>, S_baz>>),
                 join(<<S_foo, <<"b", "a", "r">>, S_shimmy>>) }
        /\ call.request.d = (join(<<S_foo, <<"1">>, S_baz>>) :> Str(<<"5">>))
                              @@ (join(<<S_foo, <<"1">>, S_shimmy>>) :> Str(<<"6">>))) =>
           /\ call.outcome.ok
           /\ call.outcome.value.arguments.d[S_foo]
                = PyList(<<Dict((S_baz :> Int_(5)) @@ (S_shimmy :> Int_(6)))>>)

\* C7: bundle emits every flattened key whose template the Schema declares,
\* its value formatted by the Parameter of that template, and fails with the
\* RuntimeError only for a key whose template is not declared.
C7_BundleResolvesTemplates ==
    call.op = "bundle" =>
        LET pairs == UNION { _flatten(tree, <<>>) : tree \in { call.extra } \cup
                                 { call.arguments[i] : i \in 1..Len(call.arguments) } }
            undeclared == { pair \in pairs : _get_template(pair[1]) \notin DeclaredTemplates }
        IN  /\ undeclared = {} =>
                 /\ call.outcome.ok
                 /\ \A pair \in pairs :
                      /\ pair[1] \in DOMAIN call.outcome.value.d
                      /\ Ret(call.outcome.value.d[pair[1]])
                           = format(DeclaredParameter(_get_template(pair[1])), pair[2])
            /\ undeclared # {} => ~call.outcome.ok
            /\ (~call.outcome.ok /\ call.outcome.exc = "RuntimeError") => undeclared # {}

\* C8: extend of Parameters succeeds and returns a Schema that declares the
\* Parameters of the Schema and the new ones, the Schema itself unchanged;
\* an argument that is no Parameter makes it fail.
C8_ExtendDeclaresAll ==
    call.op = "extend" =>
        IF \A i \in 1..Len(call.schema_items) : call.schema_items[i].t = "Parameter"
        THEN /\ call.outcome.ok
             /\ call.outcome \in Schema(parameters \o call.schema_items)
             /\ schema \in Schema(parameters)
        ELSE /\ ~call.outcome.ok
             /\ schema \in Schema(parameters)

\* C9: when the Schema declares a name without a trailing wildcard and the
\* request holds more than one value for it (Name.1 and Name.2), extract
\* fails with InvalidParameterCombination for that name.
C9_NonRepeatable ==
    ExtractedRequest =>
        \A name \in DOMAIN Declared :
            (/\ Len(split(name.s)) = 1
             /\ DeclaredTemplates = { name.s }
             /\ Cardinality({ key \in DOMAIN call.request.d :
                                Len(split(key)) = 2 /\ split(key)[1] = name.s }) > 1) =>
                call.outcome = Raise("InvalidParameterCombinationError", name)


\* The value a nested tree holds at the end of a path of segments.
RECURSIVE NestLookup(_, _)
NestLookup(node, segments) ==
    IF segments = <<>> THEN node
    ELSE IF node.t = "dict" /\ Head(segments) \in DOMAIN node.d
    THEN NestLookup(node.d[Head(segments)], Tail(segments))
    ELSE [t |-> "absent"]

\* Every visiting order of the flat map gives one outcome of the nesting,
\* and a tree that is returned holds every value at the path of its key.
OrderIndependent(params) ==
    LET nests == _convert_flat_to_nest(params)
    IN  /\ Cardinality(nests) = 1
        /\ \A nest \in nests :
               nest.ok => \A k \in DOMAIN params :
                              NestLookup(nest.value, split(k.s)) = params[k]

\* C12: the outcome of nesting a flat map depends only on its key/value
\* pairs, not on the order in which the keys are visited, and no value is
\* silently dropped: this holds of the declared names at Schema
\* construction and of the request of every extract, a key that is a dotted
\* prefix of another included.
C12_NestOrderIndependent ==
    /\ OrderIndependent(Declared)
    /\ call.op = "extract" =>
           OrderIndependent([k \in { Str(a) : a \in DOMAIN call.params.d } |->
                               call.params.d[k.s]])

====
